---- MODULE Spec2Model ----
(***************************************************************************)
(* Model of aur_checker.py: the AURChecker object, its two update-source   *)
(* adapters (pacman -Qu, yay -Qua), the NVIDIA classifier and the waybar   *)
(* report with its tooltip.                                                *)
(*                                                                         *)
(* Text is a sequence of one-character strings, except for the literal     *)
(* pieces of the f-strings, which are kept as one multi-character element. *)
(* The non-ASCII glyphs of the source are written as ASCII stand-ins (see  *)
(* the ICON_ definitions and the U+ codes inside the literals).            *)
(***************************************************************************)
EXTENDS Integers, Sequences, FiniteSets, TLC

VARIABLES official_updates, aur_updates, nvidia_updates, ret, last, calls

vars == <<official_updates, aur_updates, nvidia_updates, ret, last, calls>>

----------------------------------------------------------------------------
(* Bounds *)

\* number of method calls made on one AURChecker
MaxCalls == 2
\* number of lines of a command output in the parsing specification
MaxLines == 2

----------------------------------------------------------------------------
(* str methods used by the adapters *)

\* characters str.strip() and str.split() treat as whitespace
WhiteSpace == {" ", "\t", "\n", "\r"}

RECURSIVE lstrip(_)
lstrip(s) ==
    IF s # <<>> /\ Head(s) \in WhiteSpace THEN lstrip(Tail(s)) ELSE s

RECURSIVE rstrip(_)
rstrip(s) ==
    IF s # <<>> /\ s[Len(s)] \in WhiteSpace
    THEN rstrip(SubSeq(s, 1, Len(s) - 1))
    ELSE s

\* str.strip()
strip(s) == rstrip(lstrip(s))

\* index of the first element of s equal to sep, 0 when there is none
RECURSIVE find(_, _, _)
find(s, sep, i) ==
    IF i > Len(s) THEN 0
    ELSE IF s[i] = sep THEN i
    ELSE find(s, sep, i + 1)

\* str.split(sep) for a one-character sep: always at least one piece
RECURSIVE split_sep(_, _)
split_sep(s, sep) ==
    LET i == find(s, sep, 1)
    IN  IF i = 0 THEN <<s>>
        ELSE <<SubSeq(s, 1, i - 1)>> \o split_sep(SubSeq(s, i + 1, Len(s)), sep)

\* length of the leading run of non-whitespace of s
RECURSIVE run(_, _)
run(s, i) ==
    IF i < Len(s) /\ s[i + 1] \notin WhiteSpace THEN run(s, i + 1) ELSE i

\* str.split(): the maximal runs of non-whitespace
RECURSIVE split(_)
split(s) ==
    LET t == lstrip(s)
    IN  IF t = <<>> THEN <<>>
        ELSE LET n == run(t, 0)
             IN  <<SubSeq(t, 1, n)>> \o split(SubSeq(t, n + 1, Len(t)))

\* str(int) for a non-negative int
Digits == <<"0", "1", "2", "3", "4", "5", "6", "7", "8", "9">>

RECURSIVE str(_)
str(n) ==
    IF n < 10 THEN <<Digits[n + 1]>>
    ELSE str(n \div 10) \o <<Digits[(n % 10) + 1]>>

\* sep.join(lines)
RECURSIVE join(_, _)
join(lines, sep) ==
    IF lines = <<>> THEN <<>>
    ELSE IF Len(lines) = 1 THEN lines[1]
    ELSE lines[1] \o <<sep>> \o join(Tail(lines), sep)

\* seq[:n]
Take(seq, n) == SubSeq(seq, 1, IF Len(seq) < n THEN Len(seq) ELSE n)

\* x in seq
In(x, seq) == \E i \in 1..Len(seq) : seq[i] = x

----------------------------------------------------------------------------
(* _identify_nvidia_pkg *)

IsPrefix(p, s) == Len(p) <= Len(s) /\ SubSeq(s, 1, Len(p)) = p

NVIDIA == <<"n", "v", "i", "d", "i", "a">>
UTILS == <<"u", "t", "i", "l", "s">>
LIB32 == <<"l", "i", "b", "3", "2">>

\* the patterns, in the source's order; exact is TRUE for a pattern that
\* ends in $
nvidia_patterns ==
    << [text |-> NVIDIA, exact |-> TRUE],
       [text |-> NVIDIA \o <<"-">>, exact |-> FALSE],
       [text |-> NVIDIA \o <<"-", "l", "t", "s">>, exact |-> TRUE],
       [text |-> NVIDIA \o <<"-", "d", "k", "m", "s">>, exact |-> TRUE],
       [text |-> NVIDIA \o <<"-">> \o UTILS, exact |-> FALSE],
       [text |-> LIB32 \o <<"-">> \o NVIDIA \o <<"-">> \o UTILS, exact |-> FALSE],
       [text |-> <<"c", "u", "d", "a">>, exact |-> FALSE],
       [text |-> <<"o", "p", "e", "n", "c", "l", "-">> \o NVIDIA, exact |-> FALSE],
       [text |-> NVIDIA \o <<"-", "s", "e", "t", "t", "i", "n", "g", "s">>, exact |-> FALSE] >>

\* re.match(pattern, pkg_name): anchored at the start; no name holds a newline
re_match(pattern, pkg_name) ==
    IF pattern.exact THEN pkg_name = pattern.text
    ELSE IsPrefix(pattern.text, pkg_name)

_identify_nvidia_pkg(pkg_name) ==
    \E i \in 1..Len(nvidia_patterns) : re_match(nvidia_patterns[i], pkg_name)

----------------------------------------------------------------------------
(* The adapters *)

\* the lines the for loop iterates over
OutputLines(stdout) == split_sep(strip(stdout), "\n")

\* a test that takes a line of exactly 4 tokens only
IsUpdateLine_exactly4(parts) == Len(parts) = 4 /\ parts[3] = <<"-", ">">>

\* the test on the tokens of a line
IsUpdateLine(parts) == Len(parts) >= 4 /\ parts[3] = <<"-", ">">>

UpdateRecord(parts, type) ==
    [name |-> parts[1], current |-> parts[2], new |-> parts[4], type |-> type]

\* the loop of an adapter over the lines, from the lists before the call:
\* appends to the adapter's own list with type own_type, and to the nvidia
\* list with type nvidia_type
RECURSIVE parse_lines(_, _, _, _, _)
parse_lines(lines, own, nvidia, own_type, nvidia_type) ==
    IF lines = <<>> THEN [own |-> own, nvidia |-> nvidia]
    ELSE LET line == Head(lines)
             parts == split(line)
         IN  IF strip(line) # <<>> /\ IsUpdateLine(parts)
             THEN parse_lines(Tail(lines),
                      Append(own, UpdateRecord(parts, own_type)),
                      IF _identify_nvidia_pkg(parts[1])
                      THEN Append(nvidia, UpdateRecord(parts, nvidia_type))
                      ELSE nvidia,
                      own_type, nvidia_type)
             ELSE parse_lines(Tail(lines), own, nvidia, own_type, nvidia_type)

\* the state of the checker's three lists as one value
Lists(o, a, n) == [official |-> o, aur |-> a, nvidia |-> n]

\* get_official_updates on the lists st, when subprocess.run ends as result
official_step(st, result) ==
    IF result.kind = "ok"
    THEN LET r == parse_lines(OutputLines(result.stdout), st.official,
                              st.nvidia, "official", "official")
         IN  Lists(r.own, st.aur, r.nvidia)
    ELSE st

\* get_aur_updates on the lists st, when subprocess.run ends as result
aur_step(st, result) ==
    IF result.kind = "ok"
    THEN LET r == parse_lines(OutputLines(result.stdout), st.aur,
                              st.nvidia, "aur", "official")
         IN  Lists(st.official, r.own, r.nvidia)
    ELSE st

\* get_all_updates
all_step(st, pacman, yay) == aur_step(official_step(st, pacman), yay)

----------------------------------------------------------------------------
(* The report *)

\* stand-ins for the glyphs of the source's literals
ICON_WARNING == "U+26A0 U+FE0F"
ICON_REFRESH == "U+1F504"
ICON_CHECK == "U+2705"

\* seq[:8] in _format_tooltip
DisplayCap == 8

\* a total that leaves the AUR list out
get_total_updates_official_only(st) == Len(st.official)

get_total_updates(st) == Len(st.official) + Len(st.aur)

\* a choice that tests the total before the nvidia list
severity_total_first(st, total_updates) ==
    IF total_updates > 0
    THEN [icon |-> ICON_REFRESH, css_class |-> "has-updates"]
    ELSE IF Len(st.nvidia) > 0
    THEN [icon |-> ICON_WARNING, css_class |-> "nvidia-warning"]
    ELSE [icon |-> ICON_CHECK, css_class |-> "no-updates"]

\* the icon and the css class chosen by waybar_output
severity(st, total_updates) ==
    IF Len(st.nvidia) > 0
    THEN [icon |-> ICON_WARNING, css_class |-> "nvidia-warning"]
    ELSE IF total_updates > 0
    THEN [icon |-> ICON_REFRESH, css_class |-> "has-updates"]
    ELSE [icon |-> ICON_CHECK, css_class |-> "no-updates"]

\* f"{pkg}": the repr of the record's dict
repr(pkg) ==
    <<"{'name': '">> \o pkg.name \o <<"', 'current': '">> \o pkg.current
        \o <<"', 'new': '">> \o pkg.new \o <<"', 'type': '", pkg.type, "'}">>

\* f" U+2022 {pkg["name"]}: {pkg["current"]} -> {pkg["new"]}"
official_entry(pkg) ==
    <<" U+2022 ">> \o pkg.name \o <<": ">> \o pkg.current \o <<" -> ">> \o pkg.new

\* f" U+2022 {pkg}"
other_entry(pkg) == <<" U+2022 ">> \o repr(pkg)

\* the two entry forms of the AUR section
aur_entry(pkg, nvidia) ==
    IF In(pkg, nvidia)
    THEN <<"  U+26A0 U+FE0F ">> \o repr(pkg) \o <<" (NVIDIA)">>
    ELSE <<"  U+2022 ">> \o repr(pkg)

\* the loops that append one entry per package
official_entries(pkgs) == [i \in 1..Len(pkgs) |-> official_entry(pkgs[i])]

other_entries(pkgs) == [i \in 1..Len(pkgs) |-> other_entry(pkgs[i])]

UP_TO_DATE == <<"U+2705 System is up to date">>
OFFICIAL_HEADER == <<"U+1F4E6 Official Updates:">>
AUR_HEADER == <<"U+1F31F AUR Updates:">>

\* the lines appended when nvidia_updates is not empty
banner_lines(st) ==
    IF st.nvidia # <<>>
    THEN << <<"U+1F6A8 NVIDIA DRIVER UPDATES AVAILABLE!">>,
            <<"Consider checking Arch news before updating">>,
            <<>> >>
    ELSE <<>>

\* the lines appended by the block under "if self.official_updates",
\* tooltip_lines being the lines so far
official_block(st, tooltip_lines) ==
    IF st.official = <<>> THEN tooltip_lines
    ELSE
    LET nvidia_official == SelectSeq(st.official, LAMBDA pkg : In(pkg, st.nvidia))
        official_pkgs == SelectSeq(st.official, LAMBDA pkg : ~In(pkg, st.nvidia))
        other_aur == SelectSeq(st.aur, LAMBDA pkg : ~In(pkg, st.nvidia))
        l1 == tooltip_lines \o
              << OFFICIAL_HEADER, <<"Count:">> \o str(Len(st.official)) >>
        l2 == IF nvidia_official # <<>>
              THEN l1 \o << <<"NVIDIA packages:">> >>
                      \o official_entries(nvidia_official)
              ELSE l1
        l3 == l2 \o official_entries(Take(official_pkgs, DisplayCap))
        l4 == IF other_aur # <<>>
              THEN l3 \o (IF nvidia_official # <<>>
                          THEN << <<"Other packages:">> >> ELSE <<>>)
                      \o other_entries(Take(other_aur, DisplayCap))
                      \o (IF Len(other_aur) > DisplayCap
                          THEN << <<" ...and">> \o str(Len(other_aur) - DisplayCap)
                                      \o <<" more">> >>
                          ELSE <<>>)
              ELSE l3
    IN  IF l4 = <<>>
        THEN << UP_TO_DATE >>
        ELSE l4 \o << <<>>,
                      <<"U+1F4CA Total: ">>
                          \o str(Len(st.official) + Len(st.aur))
                          \o <<" updates">> >>

\* the lines appended by the block under "if self.aur_updates"
aur_block(st, tooltip_lines) ==
    IF st.aur = <<>> THEN tooltip_lines
    ELSE (IF tooltip_lines # <<>> THEN Append(tooltip_lines, <<>>) ELSE tooltip_lines)
         \o << AUR_HEADER >>
         \o [i \in 1..Len(Take(st.aur, DisplayCap)) |-> aur_entry(st.aur[i], st.nvidia)]
         \o (IF Len(st.aur) > DisplayCap
             THEN << <<"  ... and ">> \o str(Len(st.aur) - DisplayCap) \o <<" more">> >>
             ELSE <<>>)

\* tooltip_lines at the return of _format_tooltip
tooltip_lines_of(st) ==
    LET l == aur_block(st, official_block(st, banner_lines(st)))
    IN  IF l = <<>> THEN << UP_TO_DATE >> ELSE l

_format_tooltip(st) == join(tooltip_lines_of(st), "\n")

\* the dict waybar_output returns once get_all_updates has run
report(st) ==
    LET total_updates == get_total_updates(st)
        sev == severity(st, total_updates)
    IN  [text |-> <<sev.icon>> \o str(total_updates),
         alt |-> <<"Updates: ">> \o str(total_updates),
         tooltip |-> _format_tooltip(st),
         class |-> sev.css_class]

\* the value of a call that returns None
None == [text |-> <<>>, alt |-> <<>>, tooltip |-> <<>>, class |-> "None"]

----------------------------------------------------------------------------
(* What subprocess.run can give an adapter *)

\* the text of one output line: its tokens, separated by sep, between lead
\* and trail
RECURSIVE line_text(_, _)
line_text(toks, sep) ==
    IF toks = <<>> THEN <<>>
    ELSE IF Len(toks) = 1 THEN toks[1]
    ELSE toks[1] \o sep \o line_text(Tail(toks), sep)

OutLine(lead, toks, sep, trail) ==
    [text |-> lead \o line_text(toks, sep) \o trail, toks |-> toks]

\* a run that exits 0 with the given lines on stdout, ended by nl; lines
\* keeps the tokens each line was written from
Completed(outlines, nl) ==
    [kind |-> "ok",
     stdout |-> join([i \in 1..Len(outlines) |-> outlines[i].text], "\n") \o nl,
     lines |-> [i \in 1..Len(outlines) |-> outlines[i].toks]]

\* a run that raises: a non-zero exit (check=True), a missing executable,
\* or anything else
Raised(kind) == [kind |-> kind, stdout |-> <<>>, lines |-> <<>>]

Failures ==
    {Raised("CalledProcessError"), Raised("FileNotFoundError"), Raised("Exception")}

\* the command of the other adapter, in a call that runs only one
NotRun == [kind |-> "not_run", stdout |-> <<>>, lines |-> <<>>]

SP == <<" ">>
ARROW == <<"-", ">">>
FX == <<"f", "x">>
YAY == <<"y", "a", "y">>
CUDA == <<"c", "u", "d", "a">>
V1 == <<"1">>
V2 == <<"2">>

Plain(toks) == OutLine(<<>>, toks, SP, <<>>)

\* "pN 1 -> 2" for N = 1 .. n
NumberedLines(n) == [i \in 1..n |-> Plain(<< <<"p">> \o str(i), V1, ARROW, V2 >>)]

\* outputs of the reporting scenarios: nothing, one package, a plain and an
\* nvidia package, and one more package than a section displays
Outputs ==
    { Completed(<<>>, <<>>),
      Completed(<< Plain(<<YAY, V1, ARROW, V2>>) >>, <<"\n">>),
      Completed(<< Plain(<<FX, V1, ARROW, V2>>),
                   Plain(<<NVIDIA \o <<"-">> \o UTILS, V1, ARROW, V2>>) >>, <<"\n">>),
      Completed(NumberedLines(DisplayCap + 1), <<"\n">>) }

Results == Failures \cup Outputs

\* lines for the parser: blank, well-formed, short, misplaced or glued
\* separator, extra tokens, other whitespace
ParseLineSet ==
    { OutLine(<<>>, <<>>, SP, <<>>),
      OutLine(<<" ", "\t">>, <<>>, SP, <<>>),
      Plain(<<FX, V1, ARROW, V2>>),
      Plain(<<NVIDIA, V1, ARROW, V2, <<"x">> >>),
      Plain(<<NVIDIA \o <<"x">>, V1, ARROW, V2>>),
      Plain(<<FX, V1, ARROW>>),
      Plain(<<FX, V1, V2, ARROW>>),
      Plain(<<FX, V1, ARROW \o V2, V2>>),
      Plain(<<FX, V1, <<"-">>, <<">">>, V2>>),
      OutLine(<<"\t">>, <<CUDA, V1, ARROW, V2>>, <<" ", " ">>, <<" ">>),
      OutLine(<<>>, <<YAY, V1, ARROW, V2>>, <<"\t">>, <<"\r">>) }

RECURSIVE SeqsUpTo(_, _)
SeqsUpTo(S, n) ==
    IF n = 0 THEN {<<>>}
    ELSE LET shorter == SeqsUpTo(S, n - 1)
         IN  shorter \cup {Append(q, x) : q \in shorter, x \in S}

ParseResults ==
    {Completed(ls, nl) : ls \in SeqsUpTo(ParseLineSet, MaxLines), nl \in {<<>>, <<"\n">>}}

----------------------------------------------------------------------------
(* The operations of AURChecker *)

self == Lists(official_updates, aur_updates, nvidia_updates)

Store(st) ==
    /\ official_updates' = st.official
    /\ aur_updates' = st.aur
    /\ nvidia_updates' = st.nvidia

\* __init__
Init ==
    /\ official_updates = <<>>
    /\ aur_updates = <<>>
    /\ nvidia_updates = <<>>
    /\ ret = None
    /\ last = [op |-> "__init__", pacman |-> NotRun, yay |-> NotRun]
    /\ calls = 0

get_official_updates(pacman) ==
    /\ Store(official_step(self, pacman))
    /\ ret' = None
    /\ last' = [op |-> "get_official_updates", pacman |-> pacman, yay |-> NotRun]
    /\ calls' = calls + 1

get_aur_updates(yay) ==
    /\ Store(aur_step(self, yay))
    /\ ret' = None
    /\ last' = [op |-> "get_aur_updates", pacman |-> NotRun, yay |-> yay]
    /\ calls' = calls + 1

get_all_updates(pacman, yay) ==
    /\ Store(all_step(self, pacman, yay))
    /\ ret' = None
    /\ last' = [op |-> "get_all_updates", pacman |-> pacman, yay |-> yay]
    /\ calls' = calls + 1

waybar_output(pacman, yay) ==
    /\ LET st == all_step(self, pacman, yay)
       IN  Store(st) /\ ret' = report(st)
    /\ last' = [op |-> "waybar_output", pacman |-> pacman, yay |-> yay]
    /\ calls' = calls + 1

OfficialCall == calls < MaxCalls /\ \E r \in Results : get_official_updates(r)
AurCall == calls < MaxCalls /\ \E r \in Results : get_aur_updates(r)
AllCall == calls < MaxCalls /\ \E p \in Results, y \in Results : get_all_updates(p, y)
WaybarCall == calls < MaxCalls /\ \E p \in Results, y \in Results : waybar_output(p, y)

Next == OfficialCall \/ AurCall \/ AllCall \/ WaybarCall

Spec == Init /\ [][Next]_vars

\* one adapter parsing one output on a new checker
ParseOfficial == calls = 0 /\ \E r \in ParseResults : get_official_updates(r)
ParseAur == calls = 0 /\ \E r \in ParseResults : get_aur_updates(r)

NextParse == ParseOfficial \/ ParseAur

SpecParse == Init /\ [][NextParse]_vars

----------------------------------------------------------------------------
(* Reading a report back *)

IsNumber(d) == d # <<>> /\ \A i \in 1..Len(d) : In(d[i], Digits)

DigitValue(c) == CHOOSE k \in 0..9 : Digits[k + 1] = c

RECURSIVE ParseInt(_)
ParseInt(d) ==
    IF Len(d) = 1 THEN DigitValue(d[1])
    ELSE 10 * ParseInt(SubSeq(d, 1, Len(d) - 1)) + DigitValue(d[Len(d)])

Returned == ret # None

Total == Len(official_updates) + Len(aur_updates)

TooltipLines == split_sep(ret.tooltip, "\n")

IndexOf(line, lines) ==
    IF In(line, lines) THEN CHOOSE i \in 1..Len(lines) : lines[i] = line /\ \A j \in 1..(i - 1) : lines[j] # line
    ELSE 0

\* the lines under the official header, up to the community header
OfficialSection ==
    LET L == TooltipLines
        io == IndexOf(OFFICIAL_HEADER, L)
        ia == IndexOf(AUR_HEADER, L)
    IN  IF io = 0 THEN <<>>
        ELSE SubSeq(L, io + 1, IF ia > io THEN ia - 1 ELSE Len(L))

\* the lines under the community header
CommunitySection ==
    LET L == TooltipLines
        ia == IndexOf(AUR_HEADER, L)
    IN  IF ia = 0 THEN <<>> ELSE SubSeq(L, ia + 1, Len(L))

IsEntry(line) ==
    line # <<>> /\ line[1] \in {" U+2022 ", "  U+2022 ", "  U+26A0 U+FE0F "}

IsMarkedEntry(line) == line # <<>> /\ line[1] = "  U+26A0 U+FE0F "

IsMore(line) ==
    /\ Len(line) >= 3
    /\ line[1] \in {" ...and", "  ... and ", " ...and ", "  ...and "}
    /\ line[Len(line)] = " more"
    /\ IsNumber(SubSeq(line, 2, Len(line) - 1))

MoreCount(line) == ParseInt(SubSeq(line, 2, Len(line) - 1))

IsSummary(line) ==
    /\ Len(line) >= 3
    /\ line[1] = "U+1F4CA Total: "
    /\ line[Len(line)] = " updates"
    /\ IsNumber(SubSeq(line, 2, Len(line) - 1))

SummaryTotal(line) == ParseInt(SubSeq(line, 2, Len(line) - 1))

\* name occurs in line
Names(line, name) ==
    \E i \in 1..Len(line) :
        i + Len(name) - 1 <= Len(line) /\ SubSeq(line, i, i + Len(name) - 1) = name

Min(a, b) == IF a < b THEN a ELSE b

----------------------------------------------------------------------------
(* C1 *)

NameCurrentNew(recs) ==
    [i \in 1..Len(recs) |->
        [name |-> recs[i].name, current |-> recs[i].current, new |-> recs[i].new]]

\* the records the lines of an output stand for: one per line of at least 4
\* tokens whose token 2 is "->", made of its tokens 0, 1 and 3
WellFormed(lines) ==
    LET ok == SelectSeq(lines, LAMBDA t : Len(t) >= 4 /\ t[3] = <<"-", ">">>)
    IN  [i \in 1..Len(ok) |-> [name |-> ok[i][1], current |-> ok[i][2], new |-> ok[i][4]]]

\* C1: a call of either adapter whose command succeeds appends to the
\* adapter's list, in order, one record per output line that has at least 4
\* whitespace-separated tokens with "->" as token 2 (name, current, new =
\* tokens 0, 1, 3; extra tokens ignored), and nothing for any other line.
C1_LinesToRecords ==
    [][(calls' # calls) =>
        /\ (last'.op = "get_official_updates" /\ last'.pacman.kind = "ok") =>
              NameCurrentNew(official_updates') =
                  NameCurrentNew(official_updates) \o WellFormed(last'.pacman.lines)
        /\ (last'.op = "get_aur_updates" /\ last'.yay.kind = "ok") =>
              NameCurrentNew(aur_updates') =
                  NameCurrentNew(aur_updates) \o WellFormed(last'.yay.lines)]_vars

\* a 3-token line is skipped and the 5-token line after it is parsed
C1_Witness ==
    /\ last.op = "get_aur_updates"
    /\ Len(last.yay.lines) = 2
    /\ Len(last.yay.lines[1]) = 3
    /\ Len(last.yay.lines[2]) = 5
    /\ Len(aur_updates) = 1
    /\ aur_updates[1].name = NVIDIA
    /\ aur_updates[1].new = V2

----------------------------------------------------------------------------
(* C2 *)

\* C2: nvidia_updates holds exactly the vendor-sensitive records of
\* official_updates and aur_updates: each of its elements is in one of the
\* two lists with the same fields (origin included), every vendor-sensitive
\* record of the two lists is in it, and no record is in it twice.
C2_VendorListExact ==
    /\ \A i \in 1..Len(nvidia_updates) :
          In(nvidia_updates[i], official_updates) \/ In(nvidia_updates[i], aur_updates)
    /\ \A i \in 1..Len(official_updates) :
          _identify_nvidia_pkg(official_updates[i].name) =>
              In(official_updates[i], nvidia_updates)
    /\ \A i \in 1..Len(aur_updates) :
          _identify_nvidia_pkg(aur_updates[i].name) => In(aur_updates[i], nvidia_updates)
    /\ \A i, j \in 1..Len(nvidia_updates) :
          i # j => nvidia_updates[i] # nvidia_updates[j]

----------------------------------------------------------------------------
(* C3 *)

\* C3: a returned report has the vendor warning class iff nvidia_updates is
\* not empty, otherwise "has-updates" iff the total is positive, otherwise
\* "no-updates"; the warning class never comes with a shown total of 0 and
\* "no-updates" comes exactly with a shown total of 0.
C3_SeverityClass ==
    Returned =>
        LET shown == ParseInt(Tail(ret.alt))
        IN  /\ ret.class \in {"nvidia-warning", "has-updates", "no-updates"}
            /\ (ret.class = "nvidia-warning") <=> (nvidia_updates # <<>>)
            /\ (nvidia_updates = <<>>) => ((ret.class = "has-updates") <=> (Total > 0))
            /\ (ret.class = "nvidia-warning") => (shown # 0)
            /\ (ret.class = "no-updates") <=> (shown = 0)

\* the warning class for a vendor package that only the community source has
C3_Witness ==
    /\ Returned
    /\ ret.class = "nvidia-warning"
    /\ official_updates = <<>>
    /\ Len(aur_updates) = 2

----------------------------------------------------------------------------
(* C4 *)

\* C4: in a returned report the text is the icon followed by the total, the
\* alt is "Updates: " followed by the total, the total is
\* len(official_updates) + len(aur_updates), and a summary line of the
\* tooltip shows the same total.
C4_TotalShown ==
    Returned =>
        /\ Len(ret.text) >= 2
        /\ ret.text[1] \in {ICON_WARNING, ICON_REFRESH, ICON_CHECK}
        /\ IsNumber(Tail(ret.text))
        /\ ParseInt(Tail(ret.text)) = Total
        /\ Len(ret.alt) >= 2
        /\ ret.alt[1] = "Updates: "
        /\ IsNumber(Tail(ret.alt))
        /\ ParseInt(Tail(ret.alt)) = Total
        /\ \A i \in 1..Len(TooltipLines) :
              IsSummary(TooltipLines[i]) => SummaryTotal(TooltipLines[i]) = Total

\* a two-digit total from both sources, with the summary line in the tooltip
C4_Witness ==
    /\ Returned
    /\ Total >= 10
    /\ aur_updates # <<>>
    /\ \E i \in 1..Len(TooltipLines) : IsSummary(TooltipLines[i])

----------------------------------------------------------------------------
(* C5 *)

Fresh == Lists(<<>>, <<>>, <<>>)

\* C5: a cycle (waybar_output or get_all_updates) that is the first call on
\* the checker, or that follows the same call with the commands giving the
\* same output, leaves in the three lists only the records of that cycle,
\* and returns what the cycle before it returned.
C5_CycleStartsEmpty ==
    [][(/\ calls' # calls
        /\ last'.op \in {"waybar_output", "get_all_updates"}
        /\ \/ last.op = "__init__"
           \/ (last.op = last'.op /\ last.pacman = last'.pacman /\ last.yay = last'.yay))
       =>
        /\ Lists(official_updates', aur_updates', nvidia_updates')
              = all_step(Fresh, last'.pacman, last'.yay)
        /\ (last.op # "__init__") => ret' = ret]_vars

----------------------------------------------------------------------------
(* C6 *)

\* C6: whatever the two commands do, a failing official adapter does not
\* keep the community adapter from adding its records, a failing adapter
\* adds nothing to its list, an adapter leaves the other adapter's list
\* alone, waybar_output returns a report with its four fields, and when both
\* commands fail the report shows total 0, class "no-updates" and the
\* "up to date" tooltip.
C6_FailuresContained ==
    [][(calls' # calls) =>
        /\ (last'.pacman \in Failures) => official_updates' = official_updates
        /\ (last'.yay \in Failures) => aur_updates' = aur_updates
        /\ (last'.op = "get_official_updates") => aur_updates' = aur_updates
        /\ (last'.op = "get_aur_updates") => official_updates' = official_updates
        /\ (last'.op \in {"waybar_output", "get_all_updates"}
                /\ last'.pacman \in Failures /\ last'.yay.kind = "ok")
              => aur_updates' = aur_step(self, last'.yay).aur
        /\ (last'.op = "waybar_output") =>
              /\ ret'.class \in {"nvidia-warning", "has-updates", "no-updates"}
              /\ ret'.text # <<>> /\ ret'.alt # <<>> /\ ret'.tooltip # <<>>
        /\ (last'.op = "waybar_output"
                /\ last'.pacman \in Failures /\ last'.yay \in Failures)
              => /\ ParseInt(Tail(ret'.text)) = 0
                 /\ ParseInt(Tail(ret'.alt)) = 0
                 /\ ret'.class = "no-updates"
                 /\ ret'.tooltip = UP_TO_DATE]_vars

----------------------------------------------------------------------------
(* C7 *)

\* the entries a section shows for its source list src come in the order
\* order (at most 8 of them), and a source of more than 8 records is
\* followed by one "...and (n-8) more" line, a shorter one by none
SectionCapped(section, src, order) ==
    LET entries == SelectSeq(section, IsEntry)
        mores == SelectSeq(section, IsMore)
        n == Len(src)
    IN  /\ Len(entries) = Min(n, DisplayCap)
        /\ \A i \in 1..Min(Len(entries), n) : Names(entries[i], order[i].name)
        /\ (n > DisplayCap) =>
              /\ Len(mores) = 1
              /\ MoreCount(mores[1]) = n - DisplayCap
              /\ \A i \in 1..Len(section) :
                    IsEntry(section[i]) => i < IndexOf(mores[1], section)
        /\ (n <= DisplayCap) => mores = <<>>

\* the order of the official section: vendor-sensitive records first
VendorFirst(src) ==
    SelectSeq(src, LAMBDA r : _identify_nvidia_pkg(r.name))
        \o SelectSeq(src, LAMBDA r : ~_identify_nvidia_pkg(r.name))

\* C7: in a returned tooltip, a section whose source list has n > 8 records
\* shows exactly its first 8 entries and then one "...and (n-8) more" line,
\* and a section whose list has n <= 8 records shows its n entries and no
\* "more" line; for the official and for the community section.
C7_SectionsCapped ==
    Returned =>
        /\ SectionCapped(OfficialSection, official_updates, VendorFirst(official_updates))
        /\ SectionCapped(CommunitySection, aur_updates, aur_updates)

----------------------------------------------------------------------------
(* C8 *)

\* C8: a returned tooltip is the single "up to date" line when both lists
\* are empty; otherwise its last line is the summary line with the combined
\* total, it has no other summary line, and no "up to date" line.
C8_SummaryLast ==
    Returned =>
        LET L == TooltipLines
        IN  /\ (official_updates = <<>> /\ aur_updates = <<>>) => L = << UP_TO_DATE >>
            /\ (official_updates # <<>> \/ aur_updates # <<>>) =>
                  /\ IsSummary(L[Len(L)])
                  /\ SummaryTotal(L[Len(L)]) = Total
                  /\ \A i \in 1..(Len(L) - 1) : ~IsSummary(L[i])
                  /\ ~In(UP_TO_DATE, L)

----------------------------------------------------------------------------
(* C9 *)

\* C9: a returned tooltip has the official section iff official_updates is
\* not empty and the community section iff aur_updates is not empty, the
\* official one first; the entries of the official section are official
\* records, those of the community section are community records, at most
\* one entry per community record.
C9_SectionsBySource ==
    Returned =>
        LET L == TooltipLines
        IN  /\ In(OFFICIAL_HEADER, L) <=> (official_updates # <<>>)
            /\ In(AUR_HEADER, L) <=> (aur_updates # <<>>)
            /\ (In(OFFICIAL_HEADER, L) /\ In(AUR_HEADER, L)) =>
                  IndexOf(OFFICIAL_HEADER, L) < IndexOf(AUR_HEADER, L)
            /\ \A i \in 1..Len(OfficialSection) :
                  IsEntry(OfficialSection[i]) =>
                      \E k \in 1..Len(official_updates) :
                          Names(OfficialSection[i], official_updates[k].name)
            /\ \A i \in 1..Len(CommunitySection) :
                  IsEntry(CommunitySection[i]) =>
                      \E k \in 1..Len(aur_updates) :
                          Names(CommunitySection[i], aur_updates[k].name)
            /\ Len(SelectSeq(CommunitySection, IsEntry)) <= Len(aur_updates)

----------------------------------------------------------------------------
(* C10 *)

\* C10: in the community section of a returned tooltip, the entry of a
\* record carries the vendor marker iff the record's name is
\* vendor-sensitive.
C10_VendorMarked ==
    Returned =>
        LET entries == SelectSeq(CommunitySection, IsEntry)
        IN  \A i \in 1..Min(Len(entries), Len(aur_updates)) :
                IsMarkedEntry(entries[i]) <=> _identify_nvidia_pkg(aur_updates[i].name)

====
